---- MODULE Spec2Model ----
(***************************************************************************)
(* State-machine model of sbos_server_shadow.py: the capability resolver,  *)
(* the validator registry, the rate limiter, the write pipeline under     *)
(* UPDATE_LOCK, the anomaly monitor and the administrative endpoints.      *)
(*                                                                         *)
(* Representation choices                                                  *)
(*  - temperatures are integers in tenths of a degree (22.0 is 220);        *)
(*  - Optional values are sequences: <<>> is None, <<v>> is v;              *)
(*  - a class IRI is the sequence of its '#'-separated segments, so        *)
(*    cls.split("#")[-1] is its last element; "" is <<"">>;                 *)
(*  - an instance id f"{app_id}-{ms}" is the pair <<app_id, ms>> and the    *)
(*    key f"key_{id}" is <<"key", id>>;                                     *)
(*  - a validator reason string is a tuple: its tag and its numbers;        *)
(*  - the files model.ttl, policy.yaml, permission_profiles.yaml and        *)
(*    users.yaml are not part of the sources: their contents are inputs.    *)
(***************************************************************************)
EXTENDS Integers, Sequences, FiniteSets, TLC

(* ------------------------------ bounds -------------------------------- *)
\* operations begun in one behaviour: requests, administrative calls, file edits,
\* clock ticks and monitor windows
MaxOps == 4
\* clock readings per calendar minute (time.time() // 60)
TicksPerMinute == 2
\* length of an oracle answer in the capability-resolver specification
MaxLen == 2

(* ------------------------------ helpers ------------------------------- *)
Get(f, k, d) == IF k \in DOMAIN f THEN f[k] ELSE d

Range(s) == {s[i] : i \in 1..Len(s)}

RECURSIVE SumSeq(_)
SumSeq(s) == IF s = <<>> THEN 0 ELSE Head(s) + SumSeq(Tail(s))

SeqsUpTo(S, n) == UNION {[1..k -> S] : k \in 0..n}

\* int(x / d) of Python: truncation toward zero
Trunc(x, d) == IF x >= 0 THEN x \div d ELSE -((-x) \div d)

Abs(x) == IF x < 0 THEN -x ELSE x

\* Python's `sub in s` on strings, the strings given as token sequences
IsInfix(sub, s) ==
    \E i \in 0..(Len(s) - Len(sub)) : \A j \in 1..Len(sub) : s[i + j] = sub[j]

\* the words of the strings the model uses ("_"-separated)
Tokens(str) ==
    CASE str = "F1_ZoneA_Cool_SP" -> <<"F1", "ZoneA", "Cool", "SP">>
      [] str = "F1_ZoneA_Heat_SP" -> <<"F1", "ZoneA", "Heat", "SP">>
      [] str = "F2_ZoneB_Cool_SP" -> <<"F2", "ZoneB", "Cool", "SP">>
      [] str = "F2_ZoneB_Heat_SP" -> <<"F2", "ZoneB", "Heat", "SP">>
      [] str = "Cool_SP" -> <<"Cool", "SP">>
      [] str = "Heat_SP" -> <<"Heat", "SP">>
      [] str = "" -> <<>>
      [] OTHER -> <<str>>

Contains(sub, str) == IsInfix(Tokens(sub), Tokens(str))

\* cls.split("#")[-1] if "#" in cls else cls
Local(cls) == cls[Len(cls)]

(* --------------------------- the input files -------------------------- *)
Labels == {"F1_ZoneA_Cool_SP", "F1_ZoneA_Heat_SP", "F2_ZoneB_Cool_SP", "F2_ZoneB_Heat_SP"}

\* model.ttl: rdfs:label triples, rdf:type triples, and the answers of the
\* SPARQL queries the profiles and the users file hold.  F2_ZoneB_Cool_SP is
\* labelled but untyped; F2_ZoneB_Heat_SP is not in the graph.
ModelFile ==
    [label |-> ("iri:F1c" :> "F1_ZoneA_Cool_SP" @@ "iri:F1h" :> "F1_ZoneA_Heat_SP"
                @@ "iri:F2c" :> "F2_ZoneB_Cool_SP"),
     type  |-> ("iri:F1c" :> <<"brick", "Cooling_Setpoint">>
                @@ "iri:F1h" :> <<"brick", "Heating_Setpoint">>),
     typed |-> {<<"ZoneA", "brick:HVAC_Zone">>},
     query |-> (<<"points_of", ("zone" :> "ZoneA")>> :> <<"iri:F1c", "iri:F1h", "iri:F2c">>
                @@ <<"alice_read">> :> <<"iri:F1h", "iri:F1c">>
                @@ <<"alice_write">> :> <<"iri:F1c">>
                @@ <<"bob_read">> :> <<"iri:F1c">>)]

ProfilesFile ==
    [profiles |-> ("zone" :> [args |-> ("zone" :> [type |-> "brick:HVAC_Zone"]),
                              sparql |-> "points_of"])]

UsersFile ==
    [users |-> ("alice" :> ("sparql_read" :> <<"alice_read">> @@ "sparql_write" :> <<"alice_write">>)
                @@ "bob" :> ("sparql_read" :> <<"bob_read">>))]

PolicyA ==
    [guards |-> ("Cooling_Setpoint" :> [min |-> 180, max |-> 280, max_step |-> 30]
                 @@ "Heating_Setpoint" :> [min |-> 180, max |-> 280, max_step |-> 30]),
     validators |-> ("Cooling_Setpoint" :> <<"range", "rate">>
                     @@ "Heating_Setpoint" :> <<"range">>),
     shadow_validators |-> ("Cooling_Setpoint" :> <<"comfort_band", "energy_budget">>
                            @@ "Heating_Setpoint" :> <<"comfort_band">>),
     constraints |-> ("energy_budget_watts" :> 100 @@ "energy_per_degree_watts" :> 150
                      @@ "min_cool_setpoint" :> 250),
     monitor |-> [window_seconds |-> 2, threshold_count |-> 2,
                  cooling_min |-> 200, cooling_reset |-> 220,
                  actions |-> <<[type |-> "reset_points", match |-> "Cool_SP"],
                                [type |-> "revoke_capabilities"]>>]]

PolicyB ==
    [guards |-> ("Cooling_Setpoint" :> [min |-> 180, max |-> 280, max_step |-> 30]),
     validators |-> [c \in {} |-> <<>>],
     shadow_validators |-> ("Cooling_Setpoint" :> <<"comfort_band">>),
     constraints |-> ("comfort_min" :> 200 @@ "comfort_max" :> 250),
     monitor |-> [window_seconds |-> 1, threshold_count |-> 2,
                  cooling_min |-> 200, cooling_reset |-> 220,
                  actions |-> <<[type |-> "revoke_capabilities"],
                                [type |-> "terminate_apps"]>>]]

Policies == {PolicyA, PolicyB}

(* ------------------------------- state -------------------------------- *)
VARIABLES
    files,              \* contents of model.ttl, permission_profiles.yaml, users.yaml, policy.yaml
    clock,              \* time.time(), in ticks
    G, PROFILES, POLICY, USERS, LABEL2IRI,
    APPS, APP_KEYS,     \* instance id -> instance, key -> instance id
    State,              \* STATE, the Resource Proxy: label -> value
    constraints, validators, shadow_validators,   \* configuration tables of the DB
    txlog, shadowlog, timeseries,                 \* append-only tables of the DB
    RISK, MON_RUNNING,
    UPDATE_LOCK,        \* <<>> when free, <<t>> when request thread t holds it
    th,                 \* request threads: position and locals of the handler each runs
    mon,                \* monitor_loop: position and locals
    last,               \* the response of the request that finished most recently
    attempts,           \* the authenticated write attempts of the live registrations, oldest first
    stopped,            \* the keys stop_app_instance has removed from the registry so far
    revoked,            \* ids: the instances whose write set revoke_capabilities cleared and that
                        \* were not reloaded, registered again or stopped since;
                        \* req[t]: the request of thread t began for such an instance
    rd,                 \* the /read request between APP_KEYS.get and APPS[aid]: <<>> when
                        \* none, else its key, its label and the instance id resolved
    ops                 \* the operations begun so far

vars == <<rd, files, clock, G, PROFILES, POLICY, USERS, LABEL2IRI, APPS, APP_KEYS, State,
          constraints, validators, shadow_validators, txlog, shadowlog, timeseries,
          RISK, MON_RUNNING, UPDATE_LOCK, th, mon, last, attempts, stopped, revoked, ops>>

Threads == {"t1", "t2"}

(* --------------------------- Brick helpers ---------------------------- *)
\* G.query(sparql) projected on ?pt, on the graph g
query_iris(g, sparql) == Get(g.query, sparql, <<>>)

\* first rdf:type of the IRI, or None
class_of_iri(iri) == IF iri \in DOMAIN G.type THEN <<G.type[iri]>> ELSE <<>>

\* TRUE when the HTTPException(400) is NOT raised
require_typed_label(g, label, brick_type_qname) == <<label, brick_type_qname>> \in g.typed

(* ------------------------- Permission Manager ------------------------- *)
\* TRUE when no typed-argument check of the profile raises
render_ok(man) ==
    LET pf == PROFILES.profiles[man.profile] IN
    \A a \in DOMAIN pf.args :
        (a \in DOMAIN man.args /\ "type" \in DOMAIN pf.args[a])
            => require_typed_label(G, man.args[a], pf.args[a].type)

\* Template(pf["sparql"]).render(**args): the template with its arguments
render_profile(profiles, profile, args) == <<profiles.profiles[profile].sparql, args>>

user_caps(g, users, user, op) ==
    LET u   == Get(users.users, user, [k \in {} |-> <<>>])
        key == IF op = "read" THEN "sparql_read" ELSE "sparql_write"
    IN IF key \notin DOMAIN u THEN <<>> ELSE query_iris(g, u[key])

\* caps_from with the user's sets intersected whatever the delegation mode
caps_from_always_delegated(g, profiles, users, man) ==
    LET app_read  == query_iris(g, render_profile(profiles, man.profile, man.args))
        app_write == IF Get(man.permissions, "write", FALSE) THEN app_read ELSE <<>>
        uread     == user_caps(g, users, man.user, "read")
        uwrite    == user_caps(g, users, man.user, "write")
    IN [read  |-> SelectSeq(app_read, LAMBDA i : i \in Range(uread)),
        write |-> SelectSeq(app_write, LAMBDA i : i \in Range(uwrite))]

\* caps_from with the user's read set used for the write set too
caps_from_write_by_uread(g, profiles, users, man) ==
    LET app_read  == query_iris(g, render_profile(profiles, man.profile, man.args))
        app_write == IF Get(man.permissions, "write", FALSE) THEN app_read ELSE <<>>
        uread     == user_caps(g, users, man.user, "read")
    IN IF man.delegation = "augmentation"
       THEN [read |-> app_read, write |-> app_write]
       ELSE [read  |-> SelectSeq(app_read, LAMBDA i : i \in Range(uread)),
             write |-> SelectSeq(app_write, LAMBDA i : i \in Range(uread))]

\* compute_caps on the files as loaded in g, profiles, users
caps_from(g, profiles, users, man) ==
    LET app_read  == query_iris(g, render_profile(profiles, man.profile, man.args))
        app_write == IF Get(man.permissions, "write", FALSE) THEN app_read ELSE <<>>
        uread     == user_caps(g, users, man.user, "read")
        uwrite    == user_caps(g, users, man.user, "write")
    IN IF man.delegation = "augmentation"
       THEN [read |-> app_read, write |-> app_write]
       ELSE [read  |-> SelectSeq(app_read, LAMBDA i : i \in Range(uread)),
             write |-> SelectSeq(app_write, LAMBDA i : i \in Range(uwrite))]

compute_caps(man) == caps_from(G, PROFILES, USERS, man)

(* ---------------------- Resource Proxy and logs ----------------------- *)
StateInit ==
    ("F1_ZoneA_Cool_SP" :> 220 @@ "F1_ZoneA_Heat_SP" :> 210
     @@ "F2_ZoneB_Cool_SP" :> 220 @@ "F2_ZoneB_Heat_SP" :> 210)

TxRow(actor, app_id, user_id, action, iri, label, value, decision, reason) ==
    [actor |-> actor, app_id |-> app_id, user_id |-> user_id, action |-> action,
     point_iri |-> iri, point_label |-> label, value |-> value,
     decision |-> decision, reason |-> reason]

\* a log_tx that records allowed operations only
log_tx_allow_only(tbl, actor, app_id, user_id, action, iri, label, value, decision, reason) ==
    IF decision = "allow"
    THEN Append(tbl, TxRow(actor, app_id, user_id, action, iri, label, value, decision, reason))
    ELSE tbl

\* the table after log_tx
log_tx(tbl, actor, app_id, user_id, action, iri, label, value, decision, reason) ==
    Append(tbl, TxRow(actor, app_id, user_id, action, iri, label, value, decision, reason))

log_timeseries(tbl, label, value) == Append(tbl, [point_label |-> label, value |-> value])

ShadowRow(app_id, user_id, iri, label, value, cls, vtype, reason) ==
    [app_id |-> app_id, user_id |-> user_id, point_iri |-> iri, point_label |-> label,
     value |-> value, cls |-> cls, vtype |-> vtype, reason |-> reason]

proxy_read(label) == IF label \in DOMAIN State THEN <<State[label]>> ELSE <<>>

\* State after proxy_write (the time-series row is appended by the caller's action)
proxy_write(st, label, value) == (label :> value) @@ st

(* ----------------------------- validators ----------------------------- *)
\* json.dumps / json.loads of a constraint value
json_dumps(v) == <<"json", v>>
json_loads(t) == t[2]

get_constraints == [k \in DOMAIN constraints |-> json_loads(constraints[k])]

\* the index sequences that list the rows `idx` of `tbl` by ascending position;
\* SQL leaves the order of rows of equal position open
RECURSIVE Orders(_, _)
Orders(tbl, idx) ==
    IF idx = {} THEN {<<>>}
    ELSE UNION {{<<i>> \o rest : rest \in Orders(tbl, idx \ {i})} :
                i \in {i \in idx : \A j \in idx : tbl[i].position <= tbl[j].position}}

\* the answers SELECT vtype ... WHERE resource_class=? ORDER BY position ASC can give
select_vtypes(tbl, local) ==
    LET idx == {i \in 1..Len(tbl) : tbl[i].resource_class = local}
    IN {[k \in 1..Len(o) |-> tbl[o[k]].vtype] : o \in Orders(tbl, idx)}

get_validators_for_class(cls) == select_vtypes(validators, Local(cls))

get_shadow_validators_for_class(cls) == select_vtypes(shadow_validators, Local(cls))

Verdict(ok, reason) == [ok |-> ok, reason |-> reason]

\* a range validator that rejects the bounds themselves
v_range_exclusive(cls, label, value, prev) ==
    LET local == Local(cls) IN
    IF local \notin DOMAIN POLICY.guards THEN Verdict(TRUE, <<"no-range">>)
    ELSE LET g == POLICY.guards[local] IN
         IF value <= g.min \/ value >= g.max
         THEN Verdict(FALSE, <<"range", g.min, g.max>>)
         ELSE Verdict(TRUE, <<"ok">>)

v_range(cls, label, value, prev) ==
    LET local == Local(cls) IN
    IF local \notin DOMAIN POLICY.guards THEN Verdict(TRUE, <<"no-range">>)
    ELSE LET g == POLICY.guards[local] IN
         IF value < g.min \/ value > g.max
         THEN Verdict(FALSE, <<"range", g.min, g.max>>)
         ELSE Verdict(TRUE, <<"ok">>)

v_rate(cls, label, value, prev) ==
    LET local == Local(cls) IN
    IF local \notin DOMAIN POLICY.guards \/ prev = <<>> THEN Verdict(TRUE, <<"no-rate">>)
    ELSE LET g == POLICY.guards[local] IN
         IF Abs(value - prev[1]) > g.max_step
         THEN Verdict(FALSE, <<"step>", g.max_step>>)
         ELSE Verdict(TRUE, <<"ok">>)

v_energy_budget(cls, label, value, prev) ==
    LET c       == get_constraints
        watts   == Get(c, "energy_budget_watts", 5000)
        per_deg == Get(c, "energy_per_degree_watts", 150)
        need    == Trunc((200 - value) * per_deg, 10)
    IN IF Contains("Cool_SP", label) /\ value < Get(c, "min_cool_setpoint", 200)
          /\ need > watts
       THEN Verdict(FALSE, <<"energy_budget">>)
       ELSE Verdict(TRUE, <<"ok">>)

v_comfort_band(cls, label, value, prev) ==
    LET c  == get_constraints
        lo == Get(c, "comfort_min", 210)
        hi == Get(c, "comfort_max", 240)
    IN IF value < lo \/ value > hi
       THEN Verdict(FALSE, <<"comfort_band", lo, hi>>)
       ELSE Verdict(TRUE, <<"ok">>)

VALIDATOR_TYPES == {"range", "rate", "energy_budget", "comfort_band"}

VALIDATOR_FUNS(vname, cls, label, value, prev) ==
    CASE vname = "range" -> v_range(cls, label, value, prev)
      [] vname = "rate" -> v_rate(cls, label, value, prev)
      [] vname = "energy_budget" -> v_energy_budget(cls, label, value, prev)
      [] vname = "comfort_band" -> v_comfort_band(cls, label, value, prev)

(* ------------------------------ load_all ------------------------------ *)
\* the order in which the dictionaries of the files and of STATE are iterated
ClassOrder == <<"Cooling_Setpoint", "Heating_Setpoint">>
LabelOrder == <<"F1_ZoneA_Cool_SP", "F1_ZoneA_Heat_SP", "F2_ZoneB_Cool_SP", "F2_ZoneB_Heat_SP">>

\* the rows load_all inserts for one class: position = index from 0
chain_rows(cls, arr) ==
    [k \in 1..Len(arr) |-> [resource_class |-> cls, position |-> k - 1, vtype |-> arr[k]]]

RECURSIVE defaults_rows(_, _)
defaults_rows(defaults, order) ==
    IF order = <<>> THEN <<>>
    ELSE (IF Head(order) \in DOMAIN defaults
          THEN chain_rows(Head(order), defaults[Head(order)]) ELSE <<>>)
         \o defaults_rows(defaults, Tail(order))

\* a reload that forgets the DELETE: the rows of the policy are added to the table
reload_chain_no_delete(tbl, defaults) == tbl \o defaults_rows(defaults, ClassOrder)

\* DELETE FROM the chain table, then the rows of the policy
reload_chain(tbl, defaults) == defaults_rows(defaults, ClassOrder)

\* INSERT OR REPLACE of every constraint of the policy
load_constraints(tbl, policy) ==
    [k \in DOMAIN policy.constraints |-> json_dumps(policy.constraints[k])] @@ tbl

\* label -> IRI of the rdfs:label rows
label2iri(g) ==
    [l \in {g.label[i] : i \in DOMAIN g.label} |-> CHOOSE i \in DOMAIN g.label : g.label[i] = l]

load_all ==
    /\ G' = files.model
    /\ PROFILES' = files.profiles
    /\ POLICY' = files.policy
    /\ USERS' = files.users
    /\ LABEL2IRI' = label2iri(files.model)
    /\ constraints' = load_constraints(constraints, files.policy)
    /\ validators' = reload_chain(validators, files.policy.validators)
    /\ shadow_validators' = reload_chain(shadow_validators, files.policy.shadow_validators)

(* ----------------------------- App Steward ---------------------------- *)
Minute(now) == now \div TicksPerMinute

\* a bucket that refuses only beyond the limit (`>` for `>=`)
token_bucket_ok_beyond(inst, now) ==
    LET b0 == inst.rate
        b1 == IF Minute(now) # b0.win THEN [b0 EXCEPT !.win = Minute(now), !.tokens = 0] ELSE b0
    IN IF b1.tokens > b1.limit
       THEN [ok |-> FALSE, rate |-> b1]
       ELSE [ok |-> TRUE, rate |-> [b1 EXCEPT !.tokens = b1.tokens + 1]]

\* a bucket that counts the attempts it refuses too
token_bucket_ok_counting_refusals(inst, now) ==
    LET b0 == inst.rate
        b1 == IF Minute(now) # b0.win THEN [b0 EXCEPT !.win = Minute(now), !.tokens = 0] ELSE b0
        b2 == [b1 EXCEPT !.tokens = b1.tokens + 1]
    IN IF b1.tokens >= b1.limit
       THEN [ok |-> FALSE, rate |-> b2]
       ELSE [ok |-> TRUE, rate |-> b2]

\* the verdict and the bucket after token_bucket_ok
token_bucket_ok(inst, now) ==
    LET b0 == inst.rate
        b1 == IF Minute(now) # b0.win THEN [b0 EXCEPT !.win = Minute(now), !.tokens = 0] ELSE b0
    IN IF b1.tokens >= b1.limit
       THEN [ok |-> FALSE, rate |-> b1]
       ELSE [ok |-> TRUE, rate |-> [b1 EXCEPT !.tokens = b1.tokens + 1]]

instance_id(man, now) == <<man.app_id, now>>
key_of(app_instance_id) == <<"key", app_instance_id>>

new_instance(man, now) ==
    [manifest |-> man, key |-> key_of(instance_id(man, now)), caps |-> compute_caps(man),
     user |-> man.user,
     rate |-> [limit |-> man.write_rate_limit_per_min, tokens |-> 0, win |-> Minute(now)]]

\* APPS and APP_KEYS after stop_app_instance(aid)
stop_app_instance(reg, aid) ==
    IF aid \notin DOMAIN reg.apps THEN reg
    ELSE [apps |-> [a \in DOMAIN reg.apps \ {aid} |-> reg.apps[a]],
          keys |-> [k \in DOMAIN reg.keys \ {reg.apps[aid].key} |-> reg.keys[k]]]

(* ---------------------------- Live monitor ---------------------------- *)
\* one pass of `for k,v in STATE.items()`: the cooling points below cmin
sample_count(st, cmin) == Cardinality({k \in DOMAIN st : Contains("Cool_SP", k) /\ st[k] < cmin})

\* a reset_points that ignores its match and rewrites every point
reset_targets_all(st, act) == SelectSeq(LabelOrder, LAMBDA k : k \in DOMAIN st)

\* the labels reset_points rewrites, in the order of list(STATE.keys())
reset_targets(st, act) ==
    SelectSeq(LabelOrder, LAMBDA k : k \in DOMAIN st /\ Contains(Get(act, "match", ""), k))

RECURSIVE stop_all(_, _)
stop_all(reg, aids) ==
    IF aids = {} THEN reg
    ELSE LET a == CHOOSE x \in aids : TRUE IN stop_all(stop_app_instance(reg, a), aids \ {a})

\* remediation whose revoke_capabilities clears nothing
apply_action_revoke_skipped(act, w, reset) ==
    CASE act.type = "reset_points" ->
           LET ks == reset_targets(w.state, act) IN
           [w EXCEPT !.state = [k \in DOMAIN w.state |-> IF k \in Range(ks) THEN reset ELSE w.state[k]],
                     !.ts = w.ts \o [i \in 1..Len(ks) |-> [point_label |-> ks[i], value |-> reset]],
                     !.ran = Append(w.ran, act.type)]
      [] act.type = "revoke_capabilities" -> [w EXCEPT !.ran = Append(w.ran, act.type)]
      [] act.type = "terminate_apps" ->
           LET reg == stop_all([apps |-> w.apps, keys |-> w.keys], DOMAIN w.apps) IN
           [w EXCEPT !.apps = reg.apps, !.keys = reg.keys, !.ran = Append(w.ran, act.type)]
      [] OTHER -> w

\* the world w = [state, ts, apps, keys, ran] after one remediation action
apply_action(act, w, reset) ==
    CASE act.type = "reset_points" ->
           LET ks == reset_targets(w.state, act) IN
           [w EXCEPT !.state = [k \in DOMAIN w.state |-> IF k \in Range(ks) THEN reset ELSE w.state[k]],
                     !.ts = w.ts \o [i \in 1..Len(ks) |-> [point_label |-> ks[i], value |-> reset]],
                     !.ran = Append(w.ran, act.type)]
      [] act.type = "revoke_capabilities" ->
           [w EXCEPT !.apps = [a \in DOMAIN w.apps |-> [w.apps[a] EXCEPT !.caps.write = <<>>]],
                     !.ran = Append(w.ran, act.type)]
      [] act.type = "terminate_apps" ->
           LET reg == stop_all([apps |-> w.apps, keys |-> w.keys], DOMAIN w.apps) IN
           [w EXCEPT !.apps = reg.apps, !.keys = reg.keys, !.ran = Append(w.ran, act.type)]
      [] OTHER -> w

\* `for act in cfg.get("actions", [])`
RECURSIVE run_actions(_, _, _)
run_actions(acts, w, reset) ==
    IF acts = <<>> THEN w
    ELSE run_actions(Tail(acts), apply_action(Head(acts), w, reset), reset)

\* a monitor that carries the count of the window before into the next
window_start_count_carried(old) == old

\* cnt at the start of a window
window_start_count(old) == 0

\* `if cnt >= threshold`
at_risk(cnt, threshold) == cnt >= threshold

(* --------------------------- write pipeline --------------------------- *)
\* a pipeline that skips the capability check
authorized_any(iri, capsw) == TRUE

\* `iri not in inst["caps"]["write"]` is false
authorized(iri, capsw) == iri \in Range(capsw)

\* a pipeline that lets an empty chain through
no_validators_never(vlist) == FALSE

\* `if not vlist`
no_validators(vlist) == vlist = <<>>

Ran(vname, v) == [vtype |-> vname, ok |-> v.ok, reason |-> v.reason]

\* an enforced loop without `break`: every validator of the chain runs
run_enforced_no_break(vlist, cls, label, value, prev) ==
    [k \in 1..Len(vlist) |-> Ran(vlist[k], VALIDATOR_FUNS(vlist[k], cls, label, value, prev))]

\* the enforced validators executed, in order, up to and including the first that rejects
RECURSIVE run_enforced(_, _, _, _, _)
run_enforced(vlist, cls, label, value, prev) ==
    IF vlist = <<>> THEN <<>>
    ELSE LET v == VALIDATOR_FUNS(Head(vlist), cls, label, value, prev) IN
         IF ~v.ok THEN <<Ran(Head(vlist), v)>>
         ELSE <<Ran(Head(vlist), v)>> \o run_enforced(Tail(vlist), cls, label, value, prev)

\* the enforced loop ended in `if not ok`
rejected(ranE) == ranE # <<>> /\ ~ranE[Len(ranE)].ok

\* a shadow loop that stops at the first failure
run_shadow_until_failure(sv, cls, label, value, prev) ==
    run_enforced(sv, cls, label, value, prev)

\* the shadow validators executed: every one of the chain
run_shadow(sv, cls, label, value, prev) ==
    [k \in 1..Len(sv) |-> Ran(sv[k], VALIDATOR_FUNS(sv[k], cls, label, value, prev))]

\* the locals of write() before any is assigned
Locals0 ==
    [aid |-> <<>>, user |-> "", iri |-> "", cls |-> <<"">>, capsw |-> <<>>, admitted |-> FALSE,
     vlist |-> <<>>, prev |-> <<>>, ranE |-> <<>>, sv |-> <<>>, ranS |-> <<>>, sh0 |-> 0]

Idle == [pc |-> "idle", key |-> <<>>, label |-> "", value |-> 0, loc |-> Locals0]

NoResp == [out |-> "none", reason |-> <<>>]

\* `class_of_iri(iri) or ""` of the point the label names
cls_of_label(label) ==
    IF label \notin DOMAIN LABEL2IRI THEN <<"">>
    ELSE LET c == class_of_iri(LABEL2IRI[label]) IN IF c = <<>> THEN <<"">> ELSE c[1]

\* write() from `APPS[aid]` to the end of the shadow loop, for the answers vlist and sv
\* of the two chain queries: the response (out = "pass": go on to commit), the locals,
\* and APPS, txlog and shadowlog as the handler leaves them
pipeline(r, vlist, sv) ==
    LET aid  == r.loc.aid
        base == [out |-> "Fault", reason |-> <<>>, loc |-> r.loc,
                 apps |-> APPS, tx |-> txlog, sh |-> shadowlog]
    IN
    IF aid \notin DOMAIN APPS THEN base
    ELSE
    LET inst  == APPS[aid]
        tb    == token_bucket_ok(inst, clock)
        apps1 == [APPS EXCEPT ![aid].rate = tb.rate]
        loc1  == [r.loc EXCEPT !.user = inst.user, !.admitted = tb.ok,
                               !.capsw = inst.caps.write, !.sh0 = Len(shadowlog)]
        b1    == [base EXCEPT !.apps = apps1, !.loc = loc1]
    IN
    IF ~tb.ok THEN [b1 EXCEPT !.out = "RateLimited"]
    ELSE IF r.label \notin DOMAIN LABEL2IRI THEN [b1 EXCEPT !.out = "UnknownPoint"]
    ELSE
    LET iri  == LABEL2IRI[r.label]
        cls  == cls_of_label(r.label)
        loc2 == [loc1 EXCEPT !.iri = iri]
    IN
    IF ~authorized(iri, inst.caps.write)
    THEN [b1 EXCEPT !.out = "Forbidden", !.reason = <<"no-cap-write">>, !.loc = loc2,
                    !.tx = log_tx(txlog, "app", aid, inst.user, "write", iri, r.label, r.value,
                                  "deny", <<"no-cap-write">>)]
    ELSE
    LET loc3 == [loc2 EXCEPT !.cls = cls, !.vlist = vlist] IN
    IF no_validators(vlist)
    THEN [b1 EXCEPT !.out = "PolicyRejected", !.reason = <<"no-validators">>, !.loc = loc3,
                    !.tx = log_tx(txlog, "regulator", aid, inst.user, "write", iri, r.label,
                                  r.value, "deny", <<"no-validators">>)]
    ELSE
    LET prev == proxy_read(r.label)
        ranE == run_enforced(vlist, cls, r.label, r.value, prev)
        loc4 == [loc3 EXCEPT !.prev = prev, !.ranE = ranE]
    IN
    IF rejected(ranE)
    THEN [b1 EXCEPT !.out = "PolicyRejected", !.reason = ranE[Len(ranE)].reason, !.loc = loc4,
                    !.tx = log_tx(txlog, "regulator", aid, inst.user, "write", iri, r.label,
                                  r.value, "deny", ranE[Len(ranE)].reason)]
    ELSE
    LET ranS  == run_shadow(sv, cls, r.label, r.value, prev)
        bad   == SelectSeq(ranS, LAMBDA e : ~e.ok)
        rows  == [k \in 1..Len(bad) |->
                    ShadowRow(aid, inst.user, iri, r.label, r.value, cls, bad[k].vtype, bad[k].reason)]
    IN [b1 EXCEPT !.out = "pass", !.loc = [loc4 EXCEPT !.sv = sv, !.ranS = ranS],
                  !.sh = shadowlog \o rows]

(* ------------------------------ actions ------------------------------- *)
cfgVars == <<files, G, PROFILES, POLICY, USERS, LABEL2IRI, constraints>>
chainVars == <<validators, shadow_validators>>
logVars == <<txlog, shadowlog, timeseries>>
regVars == <<APPS, APP_KEYS>>
monVars == <<RISK, MON_RUNNING, mon>>
reqVars == <<UPDATE_LOCK, th, last, attempts>>

Finish(t, out, reason) ==
    /\ th' = [th EXCEPT ![t] = Idle]
    /\ revoked' = [revoked EXCEPT !.req[t] = FALSE]
    /\ last' = [out |-> out, reason |-> reason]
    /\ UPDATE_LOCK' = <<>>

Begin ==
    /\ ops < MaxOps
    /\ ops' = ops + 1

\* a write without `with UPDATE_LOCK`
lock_free_unguarded(lock) == TRUE

\* `with UPDATE_LOCK` can be entered: no other thread holds the lock
lock_free(lock) == lock = <<>>

\* the worker thread that serves the next request: the first idle one
FirstIdle(t) == th[t].pc = "idle" /\ (t = "t2" => th["t1"].pc # "idle")

\* POST /write, from taking UPDATE_LOCK to APP_KEYS.get(app_key)
WriteAuth(t, key, label, value) ==
    /\ FirstIdle(t)
    /\ lock_free(UPDATE_LOCK)
    /\ Begin
    /\ IF key = <<>> \/ key \notin DOMAIN APP_KEYS
       THEN /\ th' = th
            /\ last' = [out |-> IF key = <<>> THEN "Unauthenticated" ELSE "Forbidden",
                        reason |-> <<"key">>]
            /\ UPDATE_LOCK' = <<>>
            /\ revoked' = revoked
       ELSE /\ revoked' = [revoked EXCEPT !.req[t] = APP_KEYS[key] \in revoked.ids]
            /\ th' = [th EXCEPT ![t] = [pc |-> "check", key |-> key, label |-> label,
                                         value |-> value,
                                         loc |-> [Locals0 EXCEPT !.aid = APP_KEYS[key]]]]
            /\ UPDATE_LOCK' = <<t>>
            /\ last' = last
    /\ UNCHANGED <<cfgVars, chainVars, logVars, regVars, monVars, clock, State, attempts, stopped>>
    /\ rd' = rd

\* POST /write, from APPS[aid] to the end of the shadow loop
WriteCheck(t) ==
    /\ th[t].pc = "check"
    /\ \E vlist \in get_validators_for_class(cls_of_label(th[t].label)),
          sv \in get_shadow_validators_for_class(cls_of_label(th[t].label)) :
         LET res == pipeline(th[t], vlist, sv) IN
         /\ APPS' = res.apps
         /\ txlog' = res.tx
         /\ shadowlog' = res.sh
         /\ attempts' = IF res.out = "Fault" THEN attempts
                        ELSE Append(attempts, [aid |-> res.loc.aid, win |-> Minute(clock),
                                               limited |-> res.out = "RateLimited"])
         /\ IF res.out = "pass"
            THEN /\ th' = [th EXCEPT ![t].pc = "commit", ![t].loc = res.loc]
                 /\ UNCHANGED <<UPDATE_LOCK, last, revoked>>
            ELSE Finish(t, res.out, res.reason)
    /\ UNCHANGED <<cfgVars, chainVars, timeseries, APP_KEYS, monVars, clock, State, ops, stopped>>
    /\ rd' = rd

\* POST /write: proxy_write, the allow record, the release of UPDATE_LOCK
WriteCommit(t) ==
    /\ th[t].pc = "commit"
    /\ State' = proxy_write(State, th[t].label, th[t].value)
    /\ timeseries' = log_timeseries(timeseries, th[t].label, th[t].value)
    /\ txlog' = log_tx(txlog, "proxy", th[t].loc.aid, th[t].loc.user, "write", th[t].loc.iri,
                       th[t].label, th[t].value, "allow", <<"ok">>)
    /\ Finish(t, "ok", <<"ok">>)
    /\ UNCHANGED <<cfgVars, chainVars, shadowlog, regVars, monVars, clock, attempts, ops, stopped>>
    /\ rd' = rd

\* GET /read, get_app_instance_from_key up to APP_KEYS.get(app_key); it takes no lock
read(key, label) ==
    /\ rd = <<>>
    /\ Begin
    /\ IF key = <<>> \/ key \notin DOMAIN APP_KEYS
       THEN /\ last' = [out |-> IF key = <<>> THEN "Unauthenticated" ELSE "Forbidden",
                        reason |-> <<"key">>]
            /\ rd' = <<>>
       ELSE /\ rd' = [key |-> key, label |-> label, aid |-> APP_KEYS[key]]
            /\ last' = last
    /\ UNCHANGED <<cfgVars, chainVars, logVars, regVars, monVars, clock, State,
                   UPDATE_LOCK, th, attempts, stopped, revoked>>

\* GET /read, from `return aid, APPS[aid]` to the response
read_point ==
    /\ rd # <<>>
    /\ rd' = <<>>
    /\ IF rd.aid \notin DOMAIN APPS
       THEN /\ last' = [out |-> "Fault", reason |-> <<"KeyError">>]
            /\ txlog' = txlog
       ELSE LET aid   == rd.aid
                label == rd.label
                inst  == APPS[aid]
            IN
            IF label \notin DOMAIN LABEL2IRI
            THEN /\ last' = [out |-> "UnknownPoint", reason |-> <<>>]
                 /\ txlog' = txlog
            ELSE LET iri == LABEL2IRI[label] IN
                 IF iri \notin Range(inst.caps.read)
                 THEN /\ txlog' = log_tx(txlog, "app", aid, inst.user, "read", iri, label, <<>>,
                                         "deny", <<"no-cap-read">>)
                      /\ last' = [out |-> "Forbidden", reason |-> <<"no-cap-read">>]
                 ELSE /\ txlog' = log_tx(txlog, "app", aid, inst.user, "read", iri, label,
                                         proxy_read(label), "allow", <<"ok">>)
                      /\ last' = [out |-> "value", reason |-> <<"value">> \o proxy_read(label)]
    /\ UNCHANGED <<cfgVars, chainVars, shadowlog, timeseries, regVars, monVars, clock, State,
                   UPDATE_LOCK, th, attempts, stopped, revoked, ops>>

\* POST /admin/app/register
register_app(man) ==
    /\ Begin
    /\ render_ok(man)
    /\ LET aid == instance_id(man, clock) IN
       /\ APPS' = (aid :> new_instance(man, clock)) @@ APPS
       /\ APP_KEYS' = (key_of(aid) :> aid) @@ APP_KEYS
       /\ attempts' = SelectSeq(attempts, LAMBDA a : a.aid # aid)
       /\ revoked' = [revoked EXCEPT !.ids = @ \ {aid}]
    /\ UNCHANGED <<cfgVars, chainVars, logVars, monVars, clock, State, UPDATE_LOCK, th, last, stopped>>
    /\ rd' = rd

\* POST /admin/app/stop
admin_stop(aid) ==
    /\ aid \in DOMAIN APPS
    /\ Begin
    /\ LET reg == stop_app_instance([apps |-> APPS, keys |-> APP_KEYS], aid) IN
       /\ APPS' = reg.apps
       /\ APP_KEYS' = reg.keys
    /\ attempts' = SelectSeq(attempts, LAMBDA a : a.aid # aid)
    /\ stopped' = stopped \cup {APPS[aid].key}
    /\ revoked' = [revoked EXCEPT !.ids = @ \ {aid}]
    /\ UNCHANGED <<cfgVars, chainVars, logVars, monVars, clock, State, UPDATE_LOCK, th, last>>
    /\ rd' = rd

\* POST /admin/reload: load_all under UPDATE_LOCK, then the capabilities of every instance
admin_reload ==
    /\ lock_free(UPDATE_LOCK)
    /\ Begin
    /\ load_all
    /\ APPS' = [aid \in DOMAIN APPS |->
                  [APPS[aid] EXCEPT !.caps = caps_from(files.model, files.profiles, files.users,
                                                       APPS[aid].manifest)]]
    /\ last' = [out |-> "reloaded", reason |-> <<>>]
    /\ revoked' = [revoked EXCEPT !.ids = {}]
    /\ UNCHANGED <<files, logVars, APP_KEYS, monVars, clock, State, UPDATE_LOCK, th, attempts, stopped>>
    /\ rd' = rd

\* POST /admin/monitor
admin_monitor(enable) ==
    /\ MON_RUNNING # enable
    /\ Begin
    /\ MON_RUNNING' = enable
    /\ UNCHANGED <<cfgVars, chainVars, logVars, regVars, RISK, mon, clock, State, reqVars, stopped, revoked>>
    /\ rd' = rd

\* `cur2.fetchone()[0] or -1`: MAX(position), or -1 when it is NULL or 0
promote_base(tbl, local) ==
    LET ps == {tbl[i].position : i \in {i \in 1..Len(tbl) : tbl[i].resource_class = local}}
        mx == IF ps = {} THEN 0 ELSE CHOOSE m \in ps : \A q \in ps : q <= m
    IN IF mx = 0 THEN -1 ELSE mx

\* POST /admin/promote_shadow
admin_promote_shadow(resource_class) ==
    LET local == Local(resource_class)
        base  == promote_base(validators, local)
    IN
    \E sv \in select_vtypes(shadow_validators, local) :
        /\ sv # <<>>
        /\ Begin
        /\ validators' = validators \o
              [i \in 1..Len(sv) |->
                 [resource_class |-> local, position |-> base + 1 + (i - 1), vtype |-> sv[i]]]
        /\ UNCHANGED <<cfgVars, shadow_validators, logVars, regVars, monVars, clock, State,
                       reqVars, stopped, revoked>>
    /\ rd' = rd

\* the operator edits policy.yaml
EditPolicy(p) ==
    /\ p # files.policy
    /\ Begin
    /\ files' = [files EXCEPT !.policy = p]
    /\ UNCHANGED <<clock, G, PROFILES, POLICY, USERS, LABEL2IRI, constraints, chainVars, logVars,
                   regVars, monVars, State, reqVars, stopped, revoked>>
    /\ rd' = rd

\* the wall clock advances by d readings, up to a whole minute
Tick(d) ==
    /\ Begin
    /\ clock' = clock + d
    /\ UNCHANGED <<cfgVars, chainVars, logVars, regVars, monVars, State, reqVars, stopped, revoked>>
    /\ rd' = rd

\* monitor_loop: the top of the loop up to `cnt = 0; start = time.time()`
MonBegin ==
    /\ mon.pc = "top"
    /\ MON_RUNNING
    /\ Begin
    /\ LET cfg == POLICY.monitor IN
       mon' = [mon EXCEPT !.pc = "sampling", !.cfg = cfg,
                          !.window = Get(cfg, "window_seconds", 12),
                          !.threshold = Get(cfg, "threshold_count", 5),
                          !.cmin = Get(cfg, "cooling_min", 200),
                          !.reset = Get(cfg, "cooling_reset", 220),
                          !.cnt = window_start_count(mon.cnt),
                          !.left = Get(cfg, "window_seconds", 12),
                          !.samples = <<>>, !.ran = <<>>]
    /\ UNCHANGED <<cfgVars, chainVars, logVars, regVars, RISK, MON_RUNNING, clock, State, reqVars, stopped, revoked>>
    /\ rd' = rd

\* monitor_loop: one pass of the sampling loop and its one-second sleep
MonSample ==
    /\ mon.pc = "sampling"
    /\ mon.left > 0
    /\ LET c == sample_count(State, mon.cmin) IN
       mon' = [mon EXCEPT !.cnt = mon.cnt + c, !.left = mon.left - 1,
                          !.samples = Append(mon.samples, c)]
    /\ UNCHANGED <<cfgVars, chainVars, logVars, regVars, RISK, MON_RUNNING, clock, State, reqVars, ops, stopped, revoked>>
    /\ rd' = rd

\* monitor_loop: the end of the window
MonEvaluate ==
    /\ mon.pc = "sampling"
    /\ mon.left = 0
    /\ LET w0 == [state |-> State, ts |-> timeseries, apps |-> APPS, keys |-> APP_KEYS,
                  ran |-> <<>>]
           w  == IF at_risk(mon.cnt, mon.threshold)
                 THEN run_actions(Get(mon.cfg, "actions", <<>>), w0, mon.reset) ELSE w0
       IN /\ RISK' = at_risk(mon.cnt, mon.threshold)
          /\ State' = w.state
          /\ timeseries' = w.ts
          /\ APPS' = w.apps
          /\ APP_KEYS' = w.keys
          /\ mon' = [mon EXCEPT !.pc = "top", !.ran = w.ran, !.evals = mon.evals + 1]
          /\ attempts' = SelectSeq(attempts, LAMBDA a : a.aid \in DOMAIN w.apps)
          /\ stopped' = stopped \cup (DOMAIN APP_KEYS \ DOMAIN w.keys)
          /\ revoked' = [revoked EXCEPT !.ids = IF "revoke_capabilities" \in Range(w.ran)
                                                THEN DOMAIN w.apps ELSE @ \cap DOMAIN w.apps]
    /\ UNCHANGED <<cfgVars, chainVars, txlog, shadowlog, MON_RUNNING, clock, UPDATE_LOCK, th, last, ops>>
    /\ rd' = rd

(* --------------------------- specifications --------------------------- *)
Manifest(app_id, delegation, limit, write, user) ==
    [app_id |-> app_id, profile |-> "zone", args |-> ("zone" :> "ZoneA"),
     delegation |-> delegation, write_rate_limit_per_min |-> limit,
     permissions |-> ("write" :> write), user |-> user]

\* the manifests registered
Manifests ==
    {Manifest("comfort", "augmentation", 2, TRUE, "alice"),
     Manifest("comfort", "delegated", 1, TRUE, "alice"),
     Manifest("eco", "augmented", 1, TRUE, "bob")}

\* the keys, labels and values requests carry
Keys == {<<>>, key_of(<<"ghost", 0>>)} \cup DOMAIN APP_KEYS \cup stopped
Values == {190, 230, 300}
Classes == {<<"Cooling_Setpoint">>, <<"brick", "Heating_Setpoint">>}

InitRest ==
    /\ clock = 0
    /\ G = files.model
    /\ PROFILES = files.profiles
    /\ POLICY = files.policy
    /\ USERS = files.users
    /\ LABEL2IRI = label2iri(files.model)
    /\ constraints = load_constraints(<<>>, files.policy)
    /\ validators = reload_chain(<<>>, files.policy.validators)
    /\ shadow_validators = reload_chain(<<>>, files.policy.shadow_validators)
    /\ APPS = <<>>
    /\ APP_KEYS = <<>>
    /\ State = StateInit
    /\ txlog = <<>>
    /\ shadowlog = <<>>
    /\ timeseries = <<>>
    /\ RISK = FALSE
    /\ MON_RUNNING = TRUE
    /\ UPDATE_LOCK = <<>>
    /\ th = [t \in Threads |-> Idle]
    /\ mon = [pc |-> "top", cfg |-> files.policy.monitor, window |-> 0, threshold |-> 0,
              cmin |-> 0, reset |-> 0, cnt |-> 0, left |-> 0, samples |-> <<>>, ran |-> <<>>,
              evals |-> 0]
    /\ last = NoResp
    /\ attempts = <<>>
    /\ stopped = {}
    /\ rd = <<>>
    /\ revoked = [ids |-> {}, req |-> [t \in Threads |-> FALSE]]

Init ==
    /\ files \in [model : {ModelFile}, profiles : {ProfilesFile}, users : {UsersFile},
                  policy : Policies]
    /\ InitRest
    /\ ops = 0

Next ==
    \/ \E t \in Threads, key \in Keys, label \in Labels, value \in Values :
          WriteAuth(t, key, label, value)
    \/ \E t \in Threads : WriteCheck(t)
    \/ \E t \in Threads : WriteCommit(t)
    \/ \E key \in Keys, label \in Labels : read(key, label)
    \/ read_point
    \/ \E man \in Manifests : register_app(man)
    \/ \E aid \in DOMAIN APPS : admin_stop(aid)
    \/ admin_reload
    \/ \E enable \in BOOLEAN : admin_monitor(enable)
    \/ \E c \in Classes : admin_promote_shadow(c)
    \/ \E p \in Policies : EditPolicy(p)
    \/ \E d \in 1..TicksPerMinute : Tick(d)
    \/ MonBegin
    \/ MonSample
    \/ MonEvaluate

Spec == Init /\ [][Next]_vars

(* ------------ the capability resolver on arbitrary oracle answers ------------ *)
CapIris == {"iri:F1c", "iri:F1h"}
Answers == SeqsUpTo(CapIris, MaxLen)

\* users.yaml with any subset of the two stored queries for alice, and none for anyone else
UserFiles ==
    {[users |-> ("alice" :> [k \in ks |-> IF k = "sparql_read" THEN <<"alice_read">>
                                                               ELSE <<"alice_write">>])] :
        ks \in SUBSET {"sparql_read", "sparql_write"}}

\* model.ttl with any answers to the profile query and to alice's two queries
ModelFiles ==
    {[ModelFile EXCEPT !.query = (<<"points_of", ("zone" :> "ZoneA")>> :> a
                                  @@ <<"alice_read">> :> ur @@ <<"alice_write">> :> uw)] :
        a \in Answers, ur \in Answers, uw \in Answers}

CapsManifests ==
    {[app_id |-> "comfort", profile |-> "zone", args |-> ("zone" :> "ZoneA"), delegation |-> d,
      write_rate_limit_per_min |-> 1, permissions |-> perm, user |-> u] :
        d \in {"augmentation", "augmented", "delegated"},
        perm \in {[k \in {} |-> TRUE], ("write" :> TRUE), ("write" :> FALSE)},
        u \in {"alice", "nobody"}}

InitCaps ==
    /\ files \in [model : ModelFiles, profiles : {ProfilesFile}, users : UserFiles,
                  policy : {PolicyA}]
    /\ InitRest
    /\ ops = MaxOps - 1

NextCaps == \E man \in CapsManifests : register_app(man)

SpecCaps == InitCaps /\ [][NextCaps]_vars

(* ------------------------------- claims ------------------------------- *)
\* what the claims call the app's profile-derived identifier list, and the user's lists
AppRead(m) == query_iris(G, render_profile(PROFILES, m.profile, m.args))
WriteFlag(m) == "write" \in DOMAIN m.permissions /\ m.permissions["write"]
UserRead(m) == user_caps(G, USERS, m.user, "read")
UserWrite(m) == user_caps(G, USERS, m.user, "write")

C7_DelegatedIntersection ==
    \A aid \in DOMAIN APPS :
        LET m  == APPS[aid].manifest
            aw == IF WriteFlag(m) THEN Range(AppRead(m)) ELSE {}
            u  == IF m.user \in DOMAIN USERS.users THEN USERS.users[m.user] ELSE <<>>
        IN
        m.delegation = "delegated" =>
            /\ Range(APPS[aid].caps.read) = Range(AppRead(m)) \cap Range(UserRead(m))
            /\ Range(APPS[aid].caps.write) = aw \cap Range(UserWrite(m))
            /\ "sparql_read" \notin DOMAIN u => APPS[aid].caps.read = <<>>
            /\ "sparql_write" \notin DOMAIN u => APPS[aid].caps.write = <<>>

\* a delegated instance whose user can read more than it can write, and whose write set
\* is a proper, non-empty part of the app's
C7_Witness ==
    \E aid \in DOMAIN APPS :
        LET m == APPS[aid].manifest IN
        /\ m.delegation = "delegated"
        /\ WriteFlag(m)
        /\ Range(APPS[aid].caps.write) # {}
        /\ Range(APPS[aid].caps.write) # Range(AppRead(m))
        /\ Range(APPS[aid].caps.write) # Range(APPS[aid].caps.read)

(* ------------------- the steps of a write request --------------------- *)
\* thread t runs write() from APPS[aid] to the end of the shadow loop
CheckStep(t) == th[t].pc = "check" /\ th'[t].pc # "check"
\* ... and goes on to the commit
EntersCommit(t) == th[t].pc = "check" /\ th'[t].pc = "commit"
\* ... and is rejected
Rejected(t) == th[t].pc = "check" /\ th'[t].pc = "idle"
\* thread t runs proxy_write and the allow record
CommitStep(t) == th[t].pc = "commit" /\ th'[t].pc = "idle"

\* the bucket of inst has a token left in the window of the current clock reading
HasToken(inst) ==
    IF Minute(clock) = inst.rate.win THEN inst.rate.tokens < inst.rate.limit
    ELSE 0 < inst.rate.limit

\* the request of t is past authentication, rate check, point resolution and
\* authorization: it reaches enforced validation
ReachesValidation(t) ==
    LET aid == th[t].loc.aid IN
    /\ aid \in DOMAIN APPS
    /\ HasToken(APPS[aid])
    /\ th[t].label \in DOMAIN LABEL2IRI
    /\ LABEL2IRI[th[t].label] \in Range(APPS[aid].caps.write)

\* the class (local name) of the point a label names, "" when it has none
LocalClass(label) ==
    LET iri == LABEL2IRI[label] IN IF iri \in DOMAIN G.type THEN G.type[iri][Len(G.type[iri])] ELSE ""

\* the enforced and the shadow rows configured for the class of a label
EnforcedRows(label) == {i \in 1..Len(validators) : validators[i].resource_class = LocalClass(label)}
ShadowRows(label) ==
    {i \in 1..Len(shadow_validators) : shadow_validators[i].resource_class = LocalClass(label)}

\* validator vname accepts the request of t against the Resource Proxy's current value
Accepts(vname, t) ==
    VALIDATOR_FUNS(vname, cls_of_label(th[t].label), th[t].label, th[t].value,
                   proxy_read(th[t].label)).ok
ReasonOf(vname, t) ==
    VALIDATOR_FUNS(vname, cls_of_label(th[t].label), th[t].label, th[t].value,
                   proxy_read(th[t].label)).reason

\* the transaction row a write of t appends
WriteRow(t, actor, decision, reason) ==
    [actor |-> actor, app_id |-> th[t].loc.aid, user_id |-> APPS[th[t].loc.aid].user,
     action |-> "write", point_iri |-> LABEL2IRI[th[t].label], point_label |-> th[t].label,
     value |-> th[t].value, decision |-> decision, reason |-> reason]

\* the monitor ends a window
MonitorEnds == mon.pc = "sampling" /\ mon'.pc = "top"

\* C1: a step changes a point value of the Resource Proxy only if it is the end of a
\* monitor window or the commit of a write request, which then changes that point alone;
\* and a write request gets to its commit only if, in that request, the key resolved to a
\* live instance, the rate limiter admitted the attempt, the label resolved to an
\* identifier of the instance's write set, the enforced chain of the point's class was
\* non-empty and every validator of it accepted the value.  So a request that fails any
\* of these leaves every point value unchanged.
C1_CommitOnlyAfterAllChecks ==
    [][/\ State' # State =>
            \/ MonitorEnds
            \/ \E t \in Threads :
                  /\ CommitStep(t)
                  /\ \A l \in DOMAIN State' : l # th[t].label => l \in DOMAIN State /\ State'[l] = State[l]
       /\ \A t \in Threads :
            EntersCommit(t) =>
                /\ th[t].loc.aid \in DOMAIN APPS /\ APPS[th[t].loc.aid].key = th[t].key
                /\ ReachesValidation(t)
                /\ EnforcedRows(th[t].label) # {}
                /\ \A i \in EnforcedRows(th[t].label) : Accepts(validators[i].vtype, t)
      ]_vars

\* a write was committed: the response is ok, the point holds the value written and the
\* transaction log ends with its allow record
C1_Witness ==
    /\ last.out = "ok"
    /\ State["F1_ZoneA_Cool_SP"] = 230
    /\ txlog # <<>>
    /\ txlog[Len(txlog)].decision = "allow"
    /\ txlog[Len(txlog)].value = 230

\* C2 as stated: every write to a point whose class has no enforced validator (or no
\* class) is rejected, changes no value and adds a deny record with reason no-validators.
C2_EveryWriteToUnguardedClass ==
    [][\A t \in Threads :
          (CheckStep(t) /\ th[t].label \in DOMAIN LABEL2IRI /\ EnforcedRows(th[t].label) = {}) =>
              /\ Rejected(t)
              /\ State' = State
              /\ Len(txlog') = Len(txlog) + 1
              /\ txlog'[Len(txlog')].decision = "deny"
              /\ txlog'[Len(txlog')].reason = <<"no-validators">>
      ]_vars

\* C2 amended: every write that reaches enforced validation (authenticated, admitted by the
\* rate limiter, point resolved, authorized) for a point whose class has no enforced
\* validator, or no class, is rejected as PolicyRejected whatever the value, changes no
\* point value and appends exactly one record to the transaction log: the regulator's deny
\* with reason no-validators.
C2_FailClosed ==
    [][\A t \in Threads :
          (CheckStep(t) /\ ReachesValidation(t) /\ EnforcedRows(th[t].label) = {}) =>
              /\ Rejected(t)
              /\ last'.out = "PolicyRejected"
              /\ State' = State
              /\ txlog' = Append(txlog, WriteRow(t, "regulator", "deny", <<"no-validators">>))
              /\ shadowlog' = shadowlog
      ]_vars

\* the untyped point was written to by an authorized instance and the write was denied
\* for want of validators, the point keeping its value
C2_Witness ==
    /\ last.out = "PolicyRejected"
    /\ last.reason = <<"no-validators">>
    /\ txlog # <<>>
    /\ txlog[Len(txlog)].point_label = "F2_ZoneB_Cool_SP"
    /\ txlog[Len(txlog)].reason = <<"no-validators">>
    /\ State["F2_ZoneB_Cool_SP"] = 220

\* the attempts before the i-th by the same instance in the same minute window
EarlierAttempts(i) ==
    Cardinality({j \in 1..(i - 1) : /\ attempts[j].aid = attempts[i].aid
                                    /\ attempts[j].win = attempts[i].win})

\* C3: of the write attempts an instance with limit N makes in one minute window, the
\* first N are not rejected as RateLimited and the (N+1)-th and every later one is,
\* whatever became of the earlier ones downstream; and a RateLimited rejection comes
\* before point resolution, authorization and validation: it logs nothing, changes no
\* value, and is the response also for an unknown label.
C3_RateLimit ==
    [][/\ \A i \in 1..Len(attempts') :
            attempts'[i].aid \in DOMAIN APPS' =>
                (attempts'[i].limited <=>
                    (EarlierAttempts(i))' >= APPS'[attempts'[i].aid].rate.limit)
       /\ \A t \in Threads :
            (CheckStep(t) /\ th[t].loc.aid \in DOMAIN APPS /\ ~HasToken(APPS[th[t].loc.aid])) =>
                /\ Rejected(t)
                /\ last'.out = "RateLimited"
                /\ UNCHANGED <<txlog, shadowlog, timeseries, State>>
      ]_vars

\* an instance with limit 2 made three attempts in one window: the first two were
\* processed, one of them denied downstream, and the third was rejected as RateLimited
C3_Witness ==
    /\ Len(attempts) = 3
    /\ attempts[3].limited /\ ~attempts[1].limited /\ ~attempts[2].limited
    /\ attempts[1].aid = attempts[3].aid /\ attempts[2].aid = attempts[3].aid
    /\ attempts[1].win = attempts[3].win /\ attempts[2].win = attempts[3].win
    /\ last.out = "RateLimited"
    /\ \E i \in 1..Len(txlog) : txlog[i].decision = "deny"

\* C4: a write that reaches enforced validation with a non-empty chain is judged by the
\* chain in ascending position: if a validator rejects, the first that does stops the
\* evaluation, the write is rejected, no value changes and the transaction log gains
\* exactly one record, the regulator's deny with that validator's reason (never the
\* reason of a later validator); if none rejects the write goes on and no deny is written.
C4_OrderedShortCircuit ==
    [][\A t \in Threads :
          (CheckStep(t) /\ ReachesValidation(t) /\ EnforcedRows(th[t].label) # {}) =>
              \E o \in Orders(validators, EnforcedRows(th[t].label)) :
                  LET bad == {k \in 1..Len(o) : ~Accepts(validators[o[k]].vtype, t)} IN
                  IF bad = {}
                  THEN EntersCommit(t) /\ txlog' = txlog
                  ELSE LET f == CHOOSE k \in bad : \A k2 \in bad : k <= k2 IN
                       /\ Rejected(t)
                       /\ last'.out = "PolicyRejected"
                       /\ State' = State
                       /\ shadowlog' = shadowlog
                       /\ txlog' = Append(txlog, WriteRow(t, "regulator", "deny",
                                                          ReasonOf(validators[o[f]].vtype, t)))
      ]_vars

\* a write of 30.0 over 22.0 to a point with chain [range, rate] was denied: range and
\* rate both reject it, and the one record written carries the reason of range
C4_Witness ==
    /\ last.out = "PolicyRejected"
    /\ txlog # <<>>
    /\ txlog[Len(txlog)].point_label = "F1_ZoneA_Cool_SP"
    /\ txlog[Len(txlog)].value = 300
    /\ txlog[Len(txlog)].reason = <<"range", 180, 280>>
    /\ State["F1_ZoneA_Cool_SP"] = 220
    /\ \E i, j \in 1..Len(validators) :
          /\ validators[i].resource_class = "Cooling_Setpoint" /\ validators[i].vtype = "range"
          /\ validators[j].resource_class = "Cooling_Setpoint" /\ validators[j].vtype = "rate"
          /\ validators[i].position < validators[j].position
    /\ ~v_rate(<<"brick", "Cooling_Setpoint">>, "F1_ZoneA_Cool_SP", 300, <<220>>).ok

\* the shadow rows a write of t must add: one per rejecting shadow validator of the class,
\* in chain order (o lists the shadow rows of the class)
ShadowRowsFor(t, o) ==
    LET bad == SelectSeq(o, LAMBDA i : ~Accepts(shadow_validators[i].vtype, t)) IN
    [k \in 1..Len(bad) |->
        [app_id |-> th[t].loc.aid, user_id |-> APPS[th[t].loc.aid].user,
         point_iri |-> LABEL2IRI[th[t].label], point_label |-> th[t].label,
         value |-> th[t].value, cls |-> cls_of_label(th[t].label),
         vtype |-> shadow_validators[bad[k]].vtype,
         reason |-> ReasonOf(shadow_validators[bad[k]].vtype, t)]]

SourceUnchanged ==
    /\ G = files.model
    /\ PROFILES = files.profiles
    /\ USERS = files.users
    /\ POLICY = files.policy

\* each class's enforced and shadow chain reads back as exactly the list the policy
\* file gives for it (none when the file has no entry for the class)
ChainsAsSource ==
    \A c \in Range(ClassOrder) :
        /\ get_validators_for_class(<<c>>) = {Get(files.policy.validators, c, <<>>)}
        /\ get_shadow_validators_for_class(<<c>>) = {Get(files.policy.shadow_validators, c, <<>>)}

\* C8 as stated: a reload with unchanged source files leaves the read and the write set
\* of every live instance unchanged and leaves the chains equal to the source.
C8_ReloadKeepsCapabilities ==
    [][(admin_reload /\ SourceUnchanged) =>
          /\ \A aid \in DOMAIN APPS : aid \in DOMAIN APPS' /\ APPS'[aid].caps = APPS[aid].caps
          /\ ChainsAsSource'
      ]_vars

\* C8 amended: a reload with unchanged source files leaves every live instance's read
\* set unchanged and its write set unchanged unless the write set had been cleared (as
\* revoke_capabilities does), in which case the write set is again the one computed from
\* the instance's manifest; it keeps the instance's identity and key; and it leaves each
\* class's enforced and shadow chain equal to exactly what the source defines, with no
\* duplicated entries, whatever was promoted before.
C8_ReloadIdempotent ==
    [][(admin_reload /\ SourceUnchanged) =>
          /\ DOMAIN APPS' = DOMAIN APPS
          /\ \A aid \in DOMAIN APPS :
                /\ APPS'[aid].key = APPS[aid].key
                /\ APPS'[aid].caps.read = APPS[aid].caps.read
                /\ APPS[aid].caps.write # <<>> => APPS'[aid].caps.write = APPS[aid].caps.write
                /\ APPS'[aid].caps = compute_caps(APPS[aid].manifest)
          /\ ChainsAsSource'
          /\ Len(validators') = SumSeq([k \in 1..Len(ClassOrder) |->
                                   Len(Get(files.policy.validators, ClassOrder[k], <<>>))])
          /\ Len(shadow_validators') = SumSeq([k \in 1..Len(ClassOrder) |->
                                   Len(Get(files.policy.shadow_validators, ClassOrder[k], <<>>))])
      ]_vars

\* a reload of unchanged files has just answered after the monitor's last window had
\* revoked the write capabilities: an instance is live with a write set again, and the
\* chains are those of a policy that configures some
C8_Witness ==
    /\ last.out = "reloaded"
    /\ SourceUnchanged
    /\ RISK
    /\ mon.pc = "top"
    /\ "revoke_capabilities" \in Range(mon.ran)
    /\ \E aid \in DOMAIN APPS : APPS[aid].caps.write # <<>>
    /\ validators # <<>>
    /\ ChainsAsSource

(* ------------------------------ promotion ----------------------------- *)
\* C9: the enforced chain of a class read back after the promotion of its shadow
\* validators is the old enforced chain followed by the shadow chain, whatever the size
\* of the old enforced chain.
C9_PromotionAppends ==
    [][\A c \in Classes :
          admin_promote_shadow(c) =>
              \E old \in get_validators_for_class(c), sv \in get_shadow_validators_for_class(c) :
                  (get_validators_for_class(c))' = {old \o sv}
      ]_vars

(* ------------------------------- monitor ------------------------------ *)
\* the remediation actions of a monitor configuration that the loop knows, in order
KnownActions(cfg) ==
    LET acts == Get(cfg, "actions", <<>>)
        known == SelectSeq(acts, LAMBDA a : a.type \in {"reset_points", "revoke_capabilities",
                                                         "terminate_apps"})
    IN [k \in 1..Len(known) |-> known[k].type]

\* C10: when a monitor window has ended, the risk flag is true exactly when the sum of
\* the window's own samples, one per second of the window, is at or above the threshold
\* configured when the window began; if it is, the configured remediation actions have
\* run in configured order, and if not, none has; nothing of an earlier window counts.
C10_WindowAlone ==
    (mon.pc = "top" /\ mon.evals >= 1) =>
        /\ Len(mon.samples) = Get(mon.cfg, "window_seconds", 12)
        /\ RISK = (SumSeq(mon.samples) >= Get(mon.cfg, "threshold_count", 5))
        /\ mon.ran = IF RISK THEN KnownActions(mon.cfg) ELSE <<>>

\* two windows have ended: the first was at risk and reset the cooling points, the
\* second, sampled after the reset, was not, and ran no action
C10_Witness ==
    /\ mon.pc = "top"
    /\ mon.evals = 2
    /\ ~RISK
    /\ mon.ran = <<>>
    /\ SumSeq(mon.samples) = 0
    /\ \E i \in 1..Len(timeseries) :
          timeseries[i].point_label = "F1_ZoneA_Cool_SP" /\ timeseries[i].value = 220

(* ---------------------------- serialization --------------------------- *)
\* the requests between Authenticate and Audit success
InFlight == {t \in Threads : th[t].pc # "idle"}

\* C12: at most one write request is between its authentication and its allow record at a
\* time, and it is the one that holds UPDATE_LOCK; so at most one commit to the Resource
\* Proxy is in flight.
C12_WriteSerialization ==
    /\ Cardinality(InFlight) <= 1
    /\ \A t \in Threads : th[t].pc # "idle" <=> UPDATE_LOCK = <<t>>
    /\ Cardinality({t \in Threads : th[t].pc = "commit"}) <= 1

\* a write is about to commit, holding the lock, after an earlier write has committed,
\* while the other worker thread is idle
C12_Witness ==
    /\ th["t1"].pc = "commit"
    /\ UPDATE_LOCK = <<"t1">>
    /\ th["t2"].pc = "idle"
    /\ \E i \in 1..Len(txlog) : txlog[i].decision = "allow"

(* --------------------------- previous value --------------------------- *)
\* C13: when a write commits, the previous value its enforced and shadow validators were
\* evaluated against is the value the Resource Proxy holds for the point just before the
\* commit.
C13_ConsistentPrevious ==
    [][\A t \in Threads : CommitStep(t) => th[t].loc.prev = proxy_read(th[t].label)]_vars

(* ------------------------------- pausing ------------------------------ *)
\* C11: while the monitor is paused (MON_RUNNING false before and after the step) it takes
\* no sample of the point state, does not change the risk flag and executes no
\* remediation action.
C11_PausedMonitorIdles ==
    [][(~MON_RUNNING /\ ~MON_RUNNING') =>
          /\ mon'.samples = mon.samples
          /\ mon'.cnt = mon.cnt
          /\ RISK' = RISK
          /\ mon'.evals = mon.evals
          /\ mon'.ran = mon.ran
      ]_vars

(* ------------------------------ registry ------------------------------ *)
\* every key resolves to a live instance that carries it, and every live instance's key
\* resolves to it
RegistryConsistent ==
    /\ \A k \in DOMAIN APP_KEYS : APP_KEYS[k] \in DOMAIN APPS /\ APPS[APP_KEYS[k]].key = k
    /\ \A a \in DOMAIN APPS : APPS[a].key \in DOMAIN APP_KEYS /\ APP_KEYS[APPS[a].key] = a

\* C14: after any sequence of registrations and stops every key resolves to exactly one
\* live instance and every live instance has its own key; and a registration adds one
\* instance and one key and leaves every instance and key that was live as it was, also
\* when the same application id is registered twice at one clock reading.
C14_KeysUnique ==
    [][/\ RegistryConsistent'
       /\ \A man \in Manifests :
            register_app(man) =>
                /\ \A a \in DOMAIN APPS : a \in DOMAIN APPS' /\ APPS'[a] = APPS[a]
                /\ \A k \in DOMAIN APP_KEYS : k \in DOMAIN APP_KEYS' /\ APP_KEYS'[k] = APP_KEYS[k]
                /\ Cardinality(DOMAIN APPS') = Cardinality(DOMAIN APPS) + 1
                /\ Cardinality(DOMAIN APP_KEYS') = Cardinality(DOMAIN APP_KEYS) + 1
      ]_vars

\* C15: a stop removes the instance and its key from the registry, terminate_apps removes
\* every instance and key, and every read or write request that presents a key removed
\* by an earlier stop is rejected as Forbidden and changes no point value, rate bucket or
\* log.
C15_StoppedKeyForbidden ==
    [][/\ \A aid \in DOMAIN APPS :
            admin_stop(aid) => aid \notin DOMAIN APPS' /\ APPS[aid].key \notin DOMAIN APP_KEYS'
       /\ (MonitorEnds /\ "terminate_apps" \in Range(mon'.ran)) =>
            DOMAIN APPS' = {} /\ DOMAIN APP_KEYS' = {}
       /\ \A key \in stopped, label \in Labels :
            (\/ read(key, label)
             \/ \E t \in Threads, value \in Values : WriteAuth(t, key, label, value)) =>
                /\ last'.out = "Forbidden"
                /\ last'.reason = <<"key">>
                /\ UNCHANGED <<th, State, APPS, txlog, shadowlog, timeseries>>
      ]_vars

(* ----------------------------- revocation ----------------------------- *)
\* revoke_capabilities has just run: every live instance has an empty write set and the
\* read set it had
RevokeClears ==
    (MonitorEnds /\ "revoke_capabilities" \in Range(mon'.ran)) =>
        \A aid \in DOMAIN APPS' :
            /\ aid \in DOMAIN APPS
            /\ APPS'[aid].caps.write = <<>>
            /\ APPS'[aid].caps.read = APPS[aid].caps.read

\* thread t ends the checks of a write that began after revoke_capabilities cleared the
\* write set of its instance, with no reload, registration or stop of it since
RevokedWrite(t) == CheckStep(t) /\ revoked.req[t] /\ th[t].loc.aid \in revoked.ids

\* C16 as stated: after revoke_capabilities every live instance has an empty write set and
\* its read set, and every write that starts afterwards from such an instance, before a
\* reload or a registration, is denied with reason no-cap-write and changes no value.
C16_RevokedWritesDenied ==
    [][/\ RevokeClears
       /\ \A t \in Threads :
            RevokedWrite(t) =>
                /\ Rejected(t)
                /\ last' = [out |-> "Forbidden", reason |-> <<"no-cap-write">>]
                /\ State' = State
      ]_vars

\* C16 amended: after revoke_capabilities every live instance has an empty write set and
\* its read set, and every write that starts afterwards from such an instance, before a
\* reload or a registration, is rejected and changes no value: as RateLimited when the
\* bucket has no token left, else as UnknownPoint when the label does not resolve, both
\* without a log record, and otherwise as Forbidden with one deny record of reason
\* no-cap-write.
C16_RevokedWritesRejected ==
    [][/\ RevokeClears
       /\ \A t \in Threads :
            RevokedWrite(t) =>
                /\ Rejected(t)
                /\ State' = State
                /\ shadowlog' = shadowlog
                /\ IF ~HasToken(APPS[th[t].loc.aid])
                   THEN last'.out = "RateLimited" /\ txlog' = txlog
                   ELSE IF th[t].label \notin DOMAIN LABEL2IRI
                   THEN last'.out = "UnknownPoint" /\ txlog' = txlog
                   ELSE /\ last' = [out |-> "Forbidden", reason |-> <<"no-cap-write">>]
                        /\ txlog' = Append(txlog, WriteRow(t, "app", "deny", <<"no-cap-write">>))
      ]_vars

\* the monitor's last window revoked the write capabilities, and a write of an instance
\* whose manifest grants a write set has since been denied for want of the capability
C16_Witness ==
    /\ RISK
    /\ "revoke_capabilities" \in Range(mon.ran)
    /\ last = [out |-> "Forbidden", reason |-> <<"no-cap-write">>]
    /\ txlog # <<>>
    /\ txlog[Len(txlog)].reason = <<"no-cap-write">>
    /\ txlog[Len(txlog)].app_id \in revoked.ids
    /\ compute_caps(APPS[txlog[Len(txlog)].app_id].manifest).write # <<>>
    /\ APPS[txlog[Len(txlog)].app_id].caps.write = <<>>

(* --------------------------- range validator -------------------------- *)
\* values below, at, between, at and above the configured bounds 18.0 and 28.0
RangeProbe == {170, 180, 230, 280, 290}

\* v_range under the loaded policy: accepts exactly the values within the configured
\* bounds of the class, and every value, with reason no-range, for a class without guards
\* (it reads POLICY only, so it is evaluated where POLICY is set)
RangeCorrect ==
    \A c \in Classes \cup {<<"">>}, v \in RangeProbe :
        LET r == v_range(c, "F1_ZoneA_Cool_SP", v, <<>>) IN
        IF Local(c) \notin DOMAIN POLICY.guards
        THEN r.ok /\ r.reason = <<"no-range">>
        ELSE /\ r.ok <=> (POLICY.guards[Local(c)].min <= v /\ v <= POLICY.guards[Local(c)].max)
             /\ ~r.ok => r.reason[1] = "range"

\* C17: the range validator accepts a value for a class with configured {min, max} exactly
\* when min <= value <= max and accepts every value for an unconfigured class; hence a
\* write that reaches a chain that is [range] alone is rejected with a reason of range and
\* leaves the value unchanged when the value is outside the bounds, and otherwise goes on
\* to its commit, after which the Resource Proxy holds the value written.
C17_RangeValidator ==
    [][/\ ops = 0 => RangeCorrect
       /\ POLICY' # POLICY => RangeCorrect'
       /\ \A t \in Threads :
            (/\ CheckStep(t) /\ ReachesValidation(t)
             /\ get_validators_for_class(cls_of_label(th[t].label)) = {<<"range">>}
             /\ LocalClass(th[t].label) \in DOMAIN POLICY.guards) =>
                LET g == POLICY.guards[LocalClass(th[t].label)] IN
                IF g.min <= th[t].value /\ th[t].value <= g.max
                THEN EntersCommit(t) /\ State' = State
                ELSE /\ Rejected(t)
                     /\ last'.out = "PolicyRejected"
                     /\ last'.reason[1] = "range"
                     /\ State' = State
       /\ \A t \in Threads : CommitStep(t) => State'[th[t].label] = th[t].value
      ]_vars

\* on a point of a class with bounds [18.0, 28.0] and chain [range], a write of 30.0 was
\* rejected by range and a write of 23.0 was then accepted: the point holds 23.0
C17_Witness ==
    /\ Len(txlog) = 2
    /\ txlog[1].action = "write" /\ txlog[2].action = "write"
    /\ txlog[1].point_label = "F1_ZoneA_Heat_SP" /\ txlog[2].point_label = "F1_ZoneA_Heat_SP"
    /\ txlog[1].value = 300 /\ txlog[1].decision = "deny"
    /\ txlog[1].reason = <<"range", 180, 280>>
    /\ txlog[2].value = 230 /\ txlog[2].decision = "allow"
    /\ State["F1_ZoneA_Heat_SP"] = 230
    /\ get_validators_for_class(<<"brick", "Heating_Setpoint">>) = {<<"range">>}

\* the step appends exactly the row r to the transaction log
Appends(r) == txlog' = Append(txlog, r)

\* the write rows of the transaction log
WriteRows == {i \in 1..Len(txlog) : txlog[i].action = "write"}

\* C18: a write request appends at most one transaction record. The step that ends at
\* the key lookup (no key, unknown key) appends none, and neither does the step that
\* takes the request to its commit; a request turned away as rate limited or for an
\* unknown point appends none; one turned away for a missing write capability appends
\* exactly one deny record of actor "app" with reason no-cap-write; one turned away by an
\* empty chain or an enforced validator appends exactly one deny record of actor
\* "regulator" with the reported reason; the commit step sets the point and appends
\* exactly one allow record of actor "proxy"; and no other step adds an allow record of
\* a write.
C18_TxlogAccounting ==
    [][/\ txlog' # txlog =>
            ~ \E t \in Threads, key \in Keys, label \in Labels, value \in Values :
                  WriteAuth(t, key, label, value)
       /\ \A t \in Threads :
            /\ EntersCommit(t) => txlog' = txlog /\ State' = State
            /\ Rejected(t) =>
                 CASE last'.out = "Forbidden" ->
                        /\ last'.reason = <<"no-cap-write">>
                        /\ Appends(WriteRow(t, "app", "deny", <<"no-cap-write">>))
                   [] last'.out = "PolicyRejected" ->
                        Appends(WriteRow(t, "regulator", "deny", last'.reason))
                   [] OTHER ->
                        /\ last'.out \in {"RateLimited", "UnknownPoint", "Fault"}
                        /\ txlog' = txlog
            /\ CommitStep(t) =>
                 /\ State'[th[t].label] = th[t].value
                 /\ Appends(TxRow("proxy", th[t].loc.aid, th[t].loc.user, "write",
                                  th[t].loc.iri, th[t].label, th[t].value, "allow", <<"ok">>))
       /\ (/\ Len(txlog') > Len(txlog)
           /\ txlog'[Len(txlog')].action = "write"
           /\ txlog'[Len(txlog')].decision = "allow") => \E t \in Threads : CommitStep(t)
       /\ Len(txlog') <= Len(txlog) + 1
       /\ SubSeq(txlog', 1, Len(txlog)) = txlog
      ]_vars

\* three writes went through the rate limiter: one was denied by an enforced validator
\* and logged by "regulator", one was committed and logged by "proxy", and the third, turned
\* away by the rate limiter, left no record
C18_Witness ==
    /\ Len(attempts) = 3
    /\ Len(txlog) = 2
    /\ WriteRows = {1, 2}
    /\ \E i, k \in WriteRows :
          /\ txlog[i].actor = "regulator" /\ txlog[i].decision = "deny"
          /\ txlog[k].actor = "proxy" /\ txlog[k].decision = "allow"
    /\ attempts[3].limited
    /\ last.out = "RateLimited"

\* the token count an attempt at the current clock reading starts from
TokensAtAttempt(inst) == IF Minute(clock) = inst.rate.win THEN inst.rate.tokens ELSE 0

\* C19: a write attempt that reaches the rate limiter leaves the bucket of its instance
\* in the window of the current minute, with the count it started from (the stored count
\* in the same window, zero in a new one) plus one when that count was below the limit,
\* whatever the outcome of the rest of the pipeline, and unchanged, with the answer
\* RateLimited, when it was at the limit; it touches no other instance's bucket; no
\* bucket ever holds more tokens than its limit; a bucket changes only in such an
\* attempt or when its instance is registered, so a read never changes it.
C19_TokenAccounting ==
    [][/\ \A t \in Threads :
            (CheckStep(t) /\ th[t].loc.aid \in DOMAIN APPS) =>
               LET aid   == th[t].loc.aid
                   start == TokensAtAttempt(APPS[aid])
                   limit == APPS[aid].rate.limit
               IN  /\ DOMAIN APPS' = DOMAIN APPS
                   /\ APPS'[aid].rate.win = Minute(clock)
                   /\ APPS'[aid].rate.limit = limit
                   /\ IF start < limit
                      THEN /\ APPS'[aid].rate.tokens = start + 1
                           /\ last'.out # "RateLimited" \/ EntersCommit(t)
                      ELSE /\ APPS'[aid].rate.tokens = start
                           /\ Rejected(t) /\ last'.out = "RateLimited"
                   /\ \A o \in DOMAIN APPS \ {aid} : APPS'[o] = APPS[o]
       /\ \A aid \in DOMAIN APPS' : APPS'[aid].rate.tokens <= APPS'[aid].rate.limit
       /\ \A aid \in DOMAIN APPS \cap DOMAIN APPS' :
            APPS'[aid].rate # APPS[aid].rate =>
               \/ \E t \in Threads : CheckStep(t) /\ th[t].loc.aid = aid
               \/ \E man \in Manifests : register_app(man)
       /\ APPS' # APPS => ~ (read_point \/ \E key \in Keys, label \in Labels : read(key, label))
      ]_vars

\* an instance spent its whole limit of one token in one window and made the first
\* attempt of a later window, which was admitted: its count is one again
C19_Witness ==
    \E i, k \in 1..Len(attempts) :
        /\ i < k
        /\ attempts[i].aid = attempts[k].aid
        /\ attempts[i].win < attempts[k].win
        /\ ~attempts[i].limited /\ ~attempts[k].limited
        /\ attempts[k].aid \in DOMAIN APPS
        /\ APPS[attempts[k].aid].rate = [limit |-> 1, tokens |-> 1, win |-> attempts[k].win]

\* C20 as stated: after a reload the constraints read back as exactly the constraints
\* of the policy file, every key of the file with the file's value and no other key,
\* and the enforced and shadow chains as exactly the file's lists.
C20_ReloadReplacesConstraints ==
    [][admin_reload =>
          /\ get_constraints' = files.policy.constraints
          /\ ChainsAsSource'
      ]_vars

(* --------------------------- reset_points ----------------------------- *)
\* the window ends at risk under a configuration whose only state-changing action is
\* one reset_points
ResetPointsRuns ==
    /\ MonitorEnds
    /\ at_risk(mon.cnt, mon.threshold)
    /\ Cardinality({i \in DOMAIN Get(mon.cfg, "actions", <<>>) :
                       mon.cfg.actions[i].type = "reset_points"}) = 1

\* the match substring of that action
ResetMatch ==
    LET acts == Get(mon.cfg, "actions", <<>>)
        i    == CHOOSE j \in DOMAIN acts : acts[j].type = "reset_points"
    IN Get(acts[i], "match", "")

\* C21: when reset_points runs, every point whose label contains the match substring
\* holds the reset value afterwards and every other point holds the value it had; the
\* time series grows by exactly one sample per matching point, of that label and the
\* reset value; the transaction log and the shadow log are as they were; and the rate
\* bucket of every instance is as it was.
C21_ResetPointsFrame ==
    [][ResetPointsRuns =>
          LET hit == {k \in DOMAIN State : Contains(ResetMatch, k)}
              n   == Len(timeseries)
          IN /\ DOMAIN State' = DOMAIN State
             /\ \A k \in DOMAIN State :
                   State'[k] = IF k \in hit THEN mon.reset ELSE State[k]
             /\ Len(timeseries') = n + Cardinality(hit)
             /\ SubSeq(timeseries', 1, n) = timeseries
             /\ \A k \in hit :
                   Cardinality({i \in (n + 1)..Len(timeseries') :
                                   timeseries'[i].point_label = k}) = 1
             /\ \A i \in (n + 1)..Len(timeseries') :
                   timeseries'[i].point_label \in hit /\ timeseries'[i].value = mon.reset
             /\ txlog' = txlog
             /\ shadowlog' = shadowlog
             /\ \A a \in DOMAIN APPS \cap DOMAIN APPS' : APPS'[a].rate = APPS[a].rate
      ]_vars

\* reset_points has run with match "Cool_SP" while an instance had spent a token: both
\* cooling points hold the reset value and have a sample each, the heating point holds
\* the value it had, no log has a row of it, and the token is still spent
C21_Witness ==
    /\ mon.pc = "top" /\ RISK
    /\ "reset_points" \in Range(mon.ran)
    /\ \A k \in DOMAIN State : Contains("Cool_SP", k) => State[k] = mon.reset
    /\ \E k \in DOMAIN State : ~Contains("Cool_SP", k) /\ State[k] # mon.reset
    /\ Len(timeseries) >= 2
    /\ \E a \in DOMAIN APPS : APPS[a].rate.tokens = 1

(* --------------------------- energy budget ---------------------------- *)
\* the values the energy budget is probed with, a tenth of a degree apart around the
\* hard-coded 20.0 and the configured minimum
BudgetProbe == {190, 199, 200, 230, 249, 250, 300}

\* the stated rule under the loaded constraints: a cooling setpoint, a value below the
\* configured minimum, and (minimum - value) degrees at per_degree_watts above the budget
EnergyOver(label, value) ==
    LET c       == get_constraints
        watts   == Get(c, "energy_budget_watts", 5000)
        per_deg == Get(c, "energy_per_degree_watts", 150)
        minimum == Get(c, "min_cool_setpoint", 200)
    IN /\ Contains("Cool_SP", label)
       /\ value < minimum
       /\ (minimum - value) * per_deg > watts * 10

\* C22 as stated: under the loaded constraints energy_budget rejects exactly the writes
\* the stated rule is over budget for, whatever the configured minimum; and a write that
\* passes the enforced chain of a class whose shadow chain holds energy_budget leaves an
\* energy_budget row in the shadow log exactly when the rule is over budget for it.
C22_EnergyBudget ==
    [][/\ \A label \in Labels, v \in BudgetProbe :
            v_energy_budget(cls_of_label(label), label, v, <<>>).ok = ~EnergyOver(label, v)
       /\ \A t \in Threads :
            (/\ EntersCommit(t)
             /\ \E i \in ShadowRows(th[t].label) : shadow_validators[i].vtype = "energy_budget") =>
                ((\E k \in (Len(shadowlog) + 1)..Len(shadowlog') :
                      shadowlog'[k].vtype = "energy_budget")
                   <=> EnergyOver(th[t].label, th[t].value))
      ]_vars

(* --------------------- authentication against stop -------------------- *)
\* C23 as stated: whatever stop runs beside it, the authentication of a read or a write
\* ends with the instance of the key, with Unauthenticated or with Forbidden: the key
\* lookup answers one of the two or resolves to an id, and the lookup of that id, in
\* /read and in /write, finds the instance and does not fault.
C23_AuthNeverFaults ==
    [][/\ \A key \in Keys, label \in Labels :
            read(key, label) =>
               IF rd' = <<>> THEN last'.out \in {"Unauthenticated", "Forbidden"}
               ELSE rd'.aid \in DOMAIN APPS
       /\ \A t \in Threads :
            (th[t].pc = "idle" /\ th'[t].pc = "check") => th'[t].loc.aid \in DOMAIN APPS
       /\ read_point => rd.aid \in DOMAIN APPS /\ last'.out # "Fault"
       /\ \A t \in Threads :
            CheckStep(t) =>
               /\ th[t].loc.aid \in DOMAIN APPS
               /\ Rejected(t) => last'.out # "Fault"
      ]_vars

====
